---- MODULE Spec2Model ----
(***************************************************************************)
(* A model of the provider-abstraction layer of ai_telegram_bot:           *)
(*   - bot/services/ai_providers/__init__.py : get_provider and its cache  *)
(*   - bot/services/ai_providers/gemini.py   : GeminiProvider's streaming  *)
(*     chat completion (request building, transport, stream decoding)      *)
(*                                                                         *)
(* Python strings are modelled as sequences of tokens (a token is a short  *)
(* piece of text that the code never looks inside), so that str.split,     *)
(* str.strip, startswith and bytes.decode are computed, not assumed.       *)
(***************************************************************************)
EXTENDS Integers, Sequences, FiniteSets, TLC

\* ------------------------------------------------------------------ bounds
MaxEntries   == 2   \* entries of PROVIDER_MODELS
MaxInstances == 2   \* adapter objects constructed in one run
MaxHistory   == 2   \* entries of a caller's history
MaxLines     == 2   \* lines of a response body

\* ------------------------------------------------------ Python primitives
None == "None"

\* dict.get(key, default); a dict is a function over its keys
Get(d, key, default) == IF key \in DOMAIN d THEN d[key] ELSE default

\* str.startswith(prefix)
startswith(s, prefix) ==
  Len(s) >= Len(prefix) /\ SubSeq(s, 1, Len(prefix)) = prefix

\* str.strip(): leading and trailing whitespace removed
Whitespace == {" ", "LF"}
RECURSIVE lstrip(_)
lstrip(s) == IF s = << >> \/ s[1] \notin Whitespace THEN s ELSE lstrip(Tail(s))
RECURSIVE rstrip(_)
rstrip(s) ==
  IF s = << >> \/ s[Len(s)] \notin Whitespace THEN s
  ELSE rstrip(SubSeq(s, 1, Len(s) - 1))
strip(s) == rstrip(lstrip(s))

\* str.lower() of one token
lower(t) == IF t = "Gemini" THEN "gemini" ELSE t

RECURSIVE split(_, _)
\* str.split(sep): the list of the segments between the separators
split(s, sep) ==
  IF \A i \in 1..Len(s) : s[i] # sep
  THEN << s >>
  ELSE LET i == CHOOSE k \in 1..Len(s) :
                   s[k] = sep /\ \A j \in 1..(k-1) : s[j] # sep
       IN  << SubSeq(s, 1, i-1) >> \o split(SubSeq(s, i+1, Len(s)), sep)

\* ================================================================ registry
\* bot/services/ai_providers/__init__.py

\* logical provider names a caller may pass
ProviderNames == {"fal", "gemini", "openrouter", "gpt"}

\* vendor model ids ("family/variant"), the 'name' field of a PROVIDER_MODELS entry
VendorModelIds ==
  { <<"fal-ai", "/", "flux">>,
    <<"google", "/", "gemini", "-", "2.5", "-", "pro">>,
    <<"openai", "/", "gpt", "-", "4o">>,
    <<"anthropic", "/", "claude">>,
    <<"perplexity", "/", "sonar">>,
    <<"mistralai", "/", "mistral">> }

\* the model tables the registry may hold: at most MaxEntries logical names,
\* each with a 'name' (vendor model id)
ModelTables ==
  UNION { [D -> [name : VendorModelIds]] :
            D \in {S \in SUBSET ProviderNames : Cardinality(S) <= MaxEntries} }

\* Config objects (bot/config/settings.py): the three API keys get_provider reads
Configs ==
  { [id |-> "cfgA", fal_api_key |-> "falA", gemini_api_key |-> "gemA",
     openrouter_api_key |-> "orA"],
    [id |-> "cfgB", fal_api_key |-> "falB", gemini_api_key |-> "gemB",
     openrouter_api_key |-> "orB"] }

NOT_FOUND == "ValueError: not found in PROVIDER_MODELS"
NO_IMPL   == "ValueError: No implementation found for provider"
KEY_ERROR == "KeyError"

VARIABLES
  PROVIDER_MODELS,     \* the static model table (never written)
  provider_instances,  \* _provider_instances: logical name -> object id
  heap,                \* the adapter objects constructed so far; the id is the index
  call,                \* the last call and what it gave its caller (with the
                       \* config of a call that returned an adapter)
  lastReturned,        \* history: per name, the object returned since the last clear
  returnedBefore       \* history: the objects returned before the last clear

regVars == << PROVIDER_MODELS, provider_instances, heap, call,
              lastReturned, returnedBefore >>

\* provider: Optional[BaseAIProvider] = None (line 45)
NoProvider == [cls |-> None, api_key |-> None, config |-> None]

\* the constructors called at __init__.py:49, 51, 53
FalProvider(api_key, config) ==
  [cls |-> "FalProvider", api_key |-> api_key, config |-> config.id]
GeminiProvider(api_key, config) ==
  [cls |-> "GeminiProvider", api_key |-> api_key, config |-> config.id]
OpenRouterProvider(api_key, config) ==
  [cls |-> "OpenRouterProvider", api_key |-> api_key, config |-> config.id]

\* line 33: the cache is consulted first
CachedMut(provider_name) == FALSE
\* the check as a task would see it that had looked at the cache before the
\* previous call stored its instance
CachedCheckedEarlier(provider_name) ==
  /\ provider_name \in DOMAIN provider_instances
  /\ ~(call.op = "get_provider" /\ call.name = provider_name
         /\ call.ret = Len(heap))
Cached(provider_name) == provider_name \in DOMAIN provider_instances

\* line 38: the name is checked against the model table
NotInModelsMut(provider_name) == FALSE
NotInModels(provider_name) == provider_name \notin DOMAIN PROVIDER_MODELS

\* line 43 with the last element of the split
ProviderTypeLast(model_config) ==
  split(model_config.name, "/")[Len(split(model_config.name, "/"))]
\* line 43: model_config['name'].split('/')[0]
ProviderType(model_config) == split(model_config.name, "/")[1]

\* lines 45-53 with a fallback branch the code does not have
SelectProviderFallback(provider_name, provider_type, config) ==
  IF provider_type = <<"fal-ai">> \/ provider_name = "fal"
    THEN FalProvider(config.fal_api_key, config)
  ELSE IF provider_name = "gemini" \/ provider_type = <<"google">>
    THEN GeminiProvider(config.gemini_api_key, config)
  ELSE OpenRouterProvider(config.openrouter_api_key, config)

\* lines 45-53 with the first two branches in the other order
SelectProviderSwapped(provider_name, provider_type, config) ==
  IF provider_name = "gemini" \/ provider_type = <<"google">>
    THEN GeminiProvider(config.gemini_api_key, config)
  ELSE IF provider_type = <<"fal-ai">> \/ provider_name = "fal"
    THEN FalProvider(config.fal_api_key, config)
  ELSE IF provider_type \in {<<"openai">>, <<"anthropic">>, <<"perplexity">>}
          \/ provider_name = "openrouter"
    THEN OpenRouterProvider(config.openrouter_api_key, config)
  ELSE NoProvider

\* lines 45-53: map provider types to their implementations
SelectProvider(provider_name, provider_type, config) ==
  IF provider_type = <<"fal-ai">> \/ provider_name = "fal"
    THEN FalProvider(config.fal_api_key, config)
  ELSE IF provider_name = "gemini" \/ provider_type = <<"google">>
    THEN GeminiProvider(config.gemini_api_key, config)
  ELSE IF provider_type \in {<<"openai">>, <<"anthropic">>, <<"perplexity">>}
          \/ provider_name = "openrouter"
    THEN OpenRouterProvider(config.openrouter_api_key, config)
  ELSE NoProvider

Raise(provider_name, config, exc) ==
  /\ call' = [op |-> "get_provider", name |-> provider_name,
              config |-> None, raised |-> exc, ret |-> 0]
  /\ UNCHANGED << PROVIDER_MODELS, provider_instances, heap,
                  lastReturned, returnedBefore >>

Return(provider_name, config, obj) ==
  /\ call' = [op |-> "get_provider", name |-> provider_name,
              config |-> config.id, raised |-> None, ret |-> obj]
  /\ lastReturned' = [lastReturned EXCEPT ![provider_name] = obj]
  /\ UNCHANGED << PROVIDER_MODELS, returnedBefore >>

\* a cache hit that reads the config of the call into the cached instance
CacheHitRefreshed(provider_name, config) ==
  /\ Return(provider_name, config, provider_instances[provider_name])
  /\ heap' = [heap EXCEPT ![provider_instances[provider_name]].config = config.id]
  /\ UNCHANGED provider_instances

\* lines 33-35: return _provider_instances[provider_name]
CacheHit(provider_name, config) ==
  /\ Return(provider_name, config, provider_instances[provider_name])
  /\ UNCHANGED << provider_instances, heap >>

\* get_provider(provider_name, config), lines 15-62
get_provider(provider_name, config) ==
  IF Cached(provider_name) THEN
    CacheHit(provider_name, config)
  ELSE IF NotInModels(provider_name) THEN
    Raise(provider_name, config, NOT_FOUND)
  ELSE IF provider_name \notin DOMAIN PROVIDER_MODELS THEN
    Raise(provider_name, config, KEY_ERROR)   \* PROVIDER_MODELS[provider_name]
  ELSE
    LET model_config  == PROVIDER_MODELS[provider_name]
        provider_type == ProviderType(model_config)
        provider      == SelectProvider(provider_name, provider_type, config)
    IN  IF provider = NoProvider THEN
          Raise(provider_name, config, NO_IMPL)
        ELSE
          /\ Len(heap) < MaxInstances
          /\ heap' = Append(heap, provider)
          /\ provider_instances' =
               [n \in DOMAIN provider_instances \cup {provider_name} |->
                  IF n = provider_name THEN Len(heap) + 1
                  ELSE provider_instances[n]]
          /\ Return(provider_name, config, Len(heap) + 1)

\* clear_provider_instances(), lines 64-68
clear_provider_instances ==
  /\ provider_instances' = << >>
  /\ call' = [op |-> "clear_provider_instances", name |-> None,
              config |-> None, raised |-> None, ret |-> 0]
  /\ returnedBefore' = returnedBefore \cup
                         ({lastReturned[n] : n \in ProviderNames} \ {0})
  /\ lastReturned' = [n \in ProviderNames |-> 0]
  /\ UNCHANGED << PROVIDER_MODELS, heap >>

\* ================================================================== gemini
\* bot/services/ai_providers/gemini.py: building the request (lines 33-141)

\* GeminiProvider.__init__, lines 15-22
NewGeminiProvider(api_key) ==
  [api_key      |-> api_key,
   base_url     |-> <<"https://generativelanguage.googleapis.com/v1beta">>,
   model        |-> <<"models", "/", "gemini", "-", "pro">>,
   vision_model |-> <<"models", "/", "gemini", "-", "pro", "-", "vision">>]

\* an image argument: None, empty bytes, or the bytes of a picture
Images == {"None", "b''", "b'JPEG'"}
\* truth value of the image argument (lines 34, 103)
ImageTruthy(image) == image \notin {"None", "b''"}
\* base64.b64encode(image).decode("utf-8"), line 105
b64encode(image) == <<"base64", image>>

\* line 34: has_vision = bool(model_config.get("vision", False) and image)
has_vision_ignoring_flag(model_config, image) == ImageTruthy(image)
has_vision_of(model_config, image) ==
  Get(model_config, "vision", FALSE) /\ ImageTruthy(image)

\* line 38: "gemini" in model_config["name"].lower()
ContainsGemini(name) == \E i \in 1..Len(name) : lower(name[i]) = "gemini"

\* lines 35-45: the model path of the endpoint
ActiveModel(self, model_config, has_vision) ==
  LET default == IF has_vision THEN self.vision_model ELSE self.model
  IN  IF "name" \in DOMAIN model_config /\ ContainsGemini(model_config.name)
      THEN LET segments    == split(model_config.name, "/")
               model_parts == split(segments[Len(segments)], "-")
           IN  IF Len(model_parts) >= 2
               THEN LET base_model == <<"gemini", "-">> \o model_parts[2]
                                        \o <<"-", "pro">>
                    IN  IF has_vision
                        THEN <<"models", "/">> \o base_model \o <<"-", "vision">>
                        ELSE <<"models", "/">> \o base_model
               ELSE default
      ELSE default

\* line 48: endpoint = f"{self.base_url}/{active_model}:streamGenerateContent"
Endpoint(self, active_model) ==
  self.base_url \o <<"/">> \o active_model \o <<":streamGenerateContent">>

\* a history entry that is not a dict
NotADict == [pytype |-> "str"]
\* line 54: isinstance(msg, dict)
IsDict(msg) == "pytype" \notin DOMAIN msg
\* line 69: isinstance(content, str); a str is [str |-> tokens]
IsStr(content) == "str" \in DOMAIN content

\* lines 58-64 with the system role passed through
role_map_system(role) ==
  IF role = "user" THEN "user"
  ELSE IF role = "assistant" THEN "model"
  ELSE IF role = "system" THEN "system"
  ELSE None

\* lines 58-64: role_map.get(msg["role"])
role_map(role) ==
  IF role = "user" THEN "user"
  ELSE IF role = "assistant" THEN "model"
  ELSE IF role = "system" THEN "user"
  ELSE None

RECURSIVE FormatHistory(_)
\* lines 51-73: the loop that fills formatted_history
FormatHistory(history) ==
  IF history = << >> THEN << >>
  ELSE
    LET msg  == Head(history)
        rest == FormatHistory(Tail(history))
    IN  IF ~IsDict(msg) \/ ~({"role", "content"} \subseteq DOMAIN msg)
        THEN rest
        ELSE LET role == role_map(msg.role)
             IN  IF role = None THEN rest
                 ELSE LET content == msg.content
                      IN  IF IsStr(content) /\ strip(content.str) # << >>
                          THEN << [role  |-> role,
                                   parts |-> << [text |-> content.str] >>] >>
                               \o rest
                          ELSE rest

YOU_ARE == <<"You", " ", "are">>
ACKNOWLEDGEMENT == <<"I understand and will follow these guidelines.">>

\* lines 77-80: the first formatted entry is a user turn with a part whose
\* text starts with "You are"
AlreadyPresent(formatted_history) ==
  \E i \in 1..Len(formatted_history) :
    /\ i <= 1
    /\ formatted_history[i].role = "user"
    /\ "parts" \in DOMAIN formatted_history[i]
    /\ \E j \in 1..Len(formatted_history[i].parts) :
         startswith(Get(formatted_history[i].parts[j], "text", << >>), YOU_ARE)

\* lines 75-90: the system prompt and its acknowledgement are inserted in front
InjectSystemPrompt(system_prompt, formatted_history) ==
  IF system_prompt # << >> /\ ~AlreadyPresent(formatted_history)
  THEN << [role |-> "user",  parts |-> << [text |-> system_prompt] >>],
          [role |-> "model", parts |-> << [text |-> ACKNOWLEDGEMENT] >>] >>
       \o formatted_history
  ELSE formatted_history

\* lines 92-111: the current message
CurrentMessage(message, image, has_vision) ==
  [role  |-> "user",
   parts |-> (IF message # << >> THEN << [text |-> message] >> ELSE << >>)
             \o (IF ImageTruthy(image) /\ has_vision
                 THEN << [inline_data |-> [mime_type |-> "image/jpeg",
                                           data      |-> b64encode(image)]] >>
                 ELSE << >>)]

\* lines 113-141: the payload (the fixed sampling and safety settings are left out)
Payload(formatted_history, current_message, model_config) ==
  [contents         |-> formatted_history \o << current_message >>,
   generationConfig |->
     [maxOutputTokens |-> Get(model_config, "max_output_tokens", 2048)]]

\* the caller's list if formatted_history were the list itself
HistoryAfterAliased(history, formatted_history) == formatted_history

\* the caller's list after lines 51-90: formatted_history is a list of its own
\* (line 51), the appends and inserts of lines 70, 81 and 87 go to it, and the
\* caller's list is only iterated (line 53)
HistoryAfter(history, formatted_history) == history

\* lines 33-141: what the generator has built when it opens the session, or
\* the exception raised on the way (model_config["name"] at line 76), and the
\* caller's history list as the statements leave it
BuildRequest(self, message, model_config, history, image, system_prompt) ==
  LET has_vision   == has_vision_of(model_config, image)
      active_model == ActiveModel(self, model_config, has_vision)
      endpoint     == Endpoint(self, active_model)
      formatted    == FormatHistory(history)
  IN  IF "name" \notin DOMAIN model_config
      THEN [exc |-> "KeyError", endpoint |-> endpoint, payload |-> None,
            history |-> HistoryAfter(history, formatted)]
      ELSE [exc |-> None, endpoint |-> endpoint,
            payload |-> Payload(InjectSystemPrompt(system_prompt, formatted),
                                CurrentMessage(message, image, has_vision),
                                model_config),
            history |-> HistoryAfter(history,
                                     InjectSystemPrompt(system_prompt, formatted))]

\* ------------------------------------------------------------------------
\* gemini.py: transport and stream decoding (lines 143-213)

\* bytes.decode("utf-8") of one chunk (line 169). The bytes "c3" "a9" are the
\* two-byte encoding of one character; every other byte is ASCII.
RECURSIVE decode(_)
decode(b) ==
  IF b = << >> THEN [err |-> FALSE, text |-> << >>]
  ELSE IF b[1] = "c3" THEN
    IF Len(b) >= 2 /\ b[2] = "a9"
    THEN LET r == decode(SubSeq(b, 3, Len(b)))
         IN  [err |-> r.err, text |-> <<"e_acute">> \o r.text]
    ELSE [err |-> TRUE, text |-> << >>]
  ELSE IF b[1] = "a9" THEN [err |-> TRUE, text |-> << >>]
  ELSE LET r == decode(Tail(b))
       IN  [err |-> r.err, text |-> << b[1] >> \o r.text]

\* str.split(sep, 1): the text before the first separator and the text after it
split1(s, sep) ==
  LET i == CHOOSE k \in 1..Len(s) : s[k] = sep /\ \A j \in 1..(k-1) : s[j] # sep
  IN  << SubSeq(s, 1, i-1), SubSeq(s, i+1, Len(s)) >>

\* The text of a response line, character by character:
\*   "O"  {"candidates":[{"content":{"parts":[       "C"  ]}}]}
\*   "a", "e_acute"  a part {"text": <that character>}
\*   "n"  a part without "text"      "s"  a part that is a string
\*   "x"  a part that is a number    "E"  the object {}
PartChars == {"a", "e_acute", "n", "s", "x"}
\* a JSON number
ANumber == [pytype |-> "int"]
PartOf(ch) ==
  IF ch \in {"a", "e_acute"} THEN [text |-> << ch >>]
  ELSE IF ch = "n" THEN [functionCall |-> <<"f">>]
  ELSE IF ch = "s" THEN NotADict
  ELSE ANumber

\* line 183 (and 200): "text" in part. For a dict it is the key test, for a
\* str the substring test (no str part here contains it), and for a number it
\* raises TypeError
TextIn(part) ==
  IF IsDict(part) THEN [raises |-> FALSE, val |-> "text" \in DOMAIN part]
  ELSE IF part = NotADict THEN [raises |-> FALSE, val |-> FALSE]
  ELSE [raises |-> TRUE, val |-> FALSE]

\* json.loads(text): surrounding whitespace is accepted; ok = FALSE stands for
\* json.JSONDecodeError
json_loads(text) ==
  LET t == strip(text)
  IN  IF t = <<"E">> THEN [ok |-> TRUE, data |-> << >>]
      ELSE IF /\ Len(t) >= 2 /\ t[1] = "O" /\ t[Len(t)] = "C"
              /\ \A i \in 2..(Len(t) - 1) : t[i] \in PartChars
      THEN [ok |-> TRUE,
            data |-> [candidates |->
                       << [content |->
                            [parts |-> [i \in 1..(Len(t) - 2) |-> PartOf(t[i+1])]]] >>]]
      ELSE [ok |-> FALSE, data |-> << >>]

\* lines 179-182 (and 196-199): the parts the for loop runs over
PartsOf(data) ==
  IF "candidates" \in DOMAIN data /\ data.candidates # << >>
  THEN LET candidate == data.candidates[1]
       IN  IF "content" \in DOMAIN candidate /\ "parts" \in DOMAIN candidate.content
           THEN candidate.content.parts
           ELSE << >>
  ELSE << >>

Suspended(pc_, buffer_, pending_, frag_) ==
  [pc |-> pc_, buffer |-> buffer_, pending |-> pending_, frag |-> frag_]

RECURSIVE IterParts(_, _)
RECURSIVE DrainLines(_)
\* lines 182-190: the for loop over the parts of one line, up to its next yield;
\* an exception is logged and the while loop goes on
IterParts(parts, buffer) ==
  IF parts = << >> THEN DrainLines(buffer)
  ELSE IF TextIn(Head(parts)).raises THEN DrainLines(buffer)
  ELSE IF TextIn(Head(parts)).val
    THEN Suspended("yield_text", buffer, Tail(parts), Head(parts).text)
  ELSE IterParts(Tail(parts), buffer)

\* lines 172-178: the while loop over the complete lines of the buffer, up to
\* the next yield or the next read of the stream
DrainLines(buffer) ==
  IF \A i \in 1..Len(buffer) : buffer[i] # "LF"
  THEN Suspended("read", buffer, << >>, << >>)
  ELSE LET line_text == split1(buffer, "LF")[1]
           rest      == split1(buffer, "LF")[2]
       IN  IF strip(line_text) = << >> THEN DrainLines(rest)
           ELSE LET r == json_loads(line_text)
                IN  IF ~r.ok THEN DrainLines(rest)
                    ELSE IterParts(PartsOf(r.data), rest)

RECURSIVE FinalParts(_, _)
\* lines 199-203: the for loop over the parts of the remaining buffer; an
\* exception is logged and the generator ends
FinalParts(parts, buffer) ==
  IF parts = << >> THEN Suspended("done", buffer, << >>, << >>)
  ELSE IF TextIn(Head(parts)).raises THEN Suspended("done", buffer, << >>, << >>)
  ELSE IF TextIn(Head(parts)).val
    THEN Suspended("yield_final", buffer, Tail(parts), Head(parts).text)
  ELSE FinalParts(Tail(parts), buffer)

\* lines 192-203: the remaining buffer after the stream has ended
Final(buffer) ==
  IF strip(buffer) # << >>
  THEN LET r == json_loads(buffer)
       IN  IF ~r.ok THEN Suspended("done", buffer, << >>, << >>)
           ELSE FinalParts(PartsOf(r.data), buffer)
  ELSE Suspended("done", buffer, << >>, << >>)

MSG_400 == <<"Sorry, I couldn't process that request. It might contain content that can't be handled.">>
MSG_403 == <<"API access error. Please check your Gemini API key.">>
MSG_429 == <<"The Gemini API rate limit has been reached. Please try again later.">>
MSG_HTTP(status) ==
  <<"Error communicating with Gemini API (HTTP ", ToString(status), ").">>
MSG_NETWORK    == <<"Network error occurred while connecting to Gemini API.">>
MSG_TIMEOUT    == <<"The request to Gemini API timed out. Please try again.">>
MSG_UNEXPECTED == <<"An unexpected error occurred while processing your request.">>

\* lines 156-163 without the 429 branch
StatusMessageNo429(status) ==
  IF status = 400 THEN MSG_400
  ELSE IF status = 403 THEN MSG_403
  ELSE MSG_HTTP(status)

\* lines 156-163: the message for a non-200 status
StatusMessage(status) ==
  IF status = 400 THEN MSG_400
  ELSE IF status = 403 THEN MSG_403
  ELSE IF status = 429 THEN MSG_429
  ELSE MSG_HTTP(status)

\* isinstance(exc, cls) for the exceptions that reach the outer try
\* (aiohttp.ClientError, asyncio.TimeoutError, RuntimeError,
\* UnicodeDecodeError, KeyError): each is an instance of its own class and of
\* Exception
IsInstance(exc, cls) == cls \in {exc, "Exception"}

\* lines 205-213 with the broad clause first
ExceptClauseBroadFirst(exc) ==
  IF IsInstance(exc, "Exception") THEN MSG_UNEXPECTED
  ELSE IF IsInstance(exc, "aiohttp.ClientError") THEN MSG_NETWORK
  ELSE IF IsInstance(exc, "asyncio.TimeoutError") THEN MSG_TIMEOUT
  ELSE << >>

\* lines 205-213: the fragment of the first except clause that matches; the
\* empty fragment stands for no clause matching (the exception propagates)
ExceptClause(exc) ==
  IF IsInstance(exc, "aiohttp.ClientError") THEN MSG_NETWORK
  ELSE IF IsInstance(exc, "asyncio.TimeoutError") THEN MSG_TIMEOUT
  ELSE IF IsInstance(exc, "Exception") THEN MSG_UNEXPECTED
  ELSE << >>

VARIABLES
  self,           \* the GeminiProvider whose method runs
  message,        \* the arguments of chat_completion_stream ...
  model_config,
  history,
  image,
  system_prompt,  \* what self._get_system_prompt gives for the model
  body,           \* the bytes of the response body
  allowed,        \* the statuses and faults the transport may produce
  pc,             \* where the generator is suspended
  endpoint,       \* locals of the generator
  payload,
  status,         \* response.status, 0 before the response
  pos,            \* bytes of the body handed to the generator so far
  buffer,
  pending,        \* the parts the suspended for loop has still to visit
  out,            \* the fragments the consumer has received
  fault,          \* the exception that reached the outer try, and where
  posts,          \* HTTP requests sent
  other           \* the arguments, locals and connection of a second call of
                  \* the method on the same adapter, while it is suspended

reqVars    == << self, message, model_config, history, image, system_prompt >>
streamVars == << reqVars, body, allowed, pc, endpoint, payload, status, pos,
                 buffer, pending, out, fault, posts, other >>

NoPayload == [contents |-> << >>, generationConfig |-> [maxOutputTokens |-> 0]]
NoFault   == [exc |-> None, at |-> None]

\* handlers that yield nothing and send the request again
CaughtRetry(exc, at) ==
  /\ fault' = [exc |-> exc, at |-> at]
  /\ pc' = "post"
  /\ out' = out

\* the outer try's handlers take over: one fragment is yielded
Caught(exc, at) ==
  /\ fault' = [exc |-> exc, at |-> at]
  /\ IF ExceptClause(exc) = << >>
     THEN pc' = "raised" /\ out' = out
     ELSE pc' = "yield_fault" /\ out' = Append(out, ExceptClause(exc))

\* the generator runs to its next suspension
Suspend(r) ==
  /\ pc' = r.pc
  /\ buffer' = r.buffer
  /\ pending' = r.pending
  /\ out' = IF r.pc \in {"yield_text", "yield_final"} THEN Append(out, r.frag)
            ELSE out

\* first __anext__: lines 33-150, up to the await of session.post
Start ==
  /\ pc = "init"
  /\ LET r == BuildRequest(self, message, model_config, history, image,
                           system_prompt)
     IN  /\ IF r.exc # None
            THEN /\ Caught(r.exc, "build")
                 /\ UNCHANGED << endpoint, payload, posts >>
            ELSE /\ endpoint' = r.endpoint
                 /\ payload' = r.payload
                 /\ posts' = posts + 1
                 /\ pc' = "post"
                 /\ UNCHANGED << out, fault >>
         /\ history' = r.history
  /\ UNCHANGED << self, message, model_config, image, system_prompt >>
  /\ UNCHANGED << body, allowed, status, pos, buffer, pending >>

\* the response arrives: lines 150-151 and 167
Response(st) ==
  /\ pc = "post"
  /\ st \in allowed.statuses
  /\ status' = st
  /\ pc' = IF st # 200 THEN "error_body" ELSE "read"
  /\ buffer' = << >>
  /\ UNCHANGED << reqVars, body, allowed, endpoint, payload, pos, pending, out,
                  fault, posts >>

\* response.text() returns: lines 152-163, up to the yield
ErrorBody ==
  /\ pc = "error_body"
  /\ out' = Append(out, StatusMessage(status))
  /\ pc' = "yield_status"
  /\ UNCHANGED << reqVars, body, allowed, endpoint, payload, status, pos, buffer,
                  pending, fault, posts >>

\* an await of the transport raises: connecting, reading the error body,
\* reading a chunk
Fault(exc) ==
  /\ pc \in {"post", "error_body", "read"}
  /\ exc \in allowed.faults
  /\ Caught(exc, pc)
  /\ UNCHANGED << reqVars, body, allowed, endpoint, payload, status, pos, buffer,
                  pending, posts >>

\* the stream hands over its next n bytes: lines 168-190, up to the next
\* suspension
Chunk(n) ==
  /\ pc = "read"
  /\ n \in 1..(Len(body) - pos)
  /\ pos' = pos + n
  /\ LET line == SubSeq(body, pos + 1, pos + n)
         d    == decode(line)
     IN  IF d.err
         THEN Caught("UnicodeDecodeError", "decode") /\ UNCHANGED << buffer, pending >>
         ELSE Suspend(DrainLines(buffer \o d.text)) /\ UNCHANGED fault
  /\ UNCHANGED << reqVars, body, allowed, endpoint, payload, status, posts >>

\* the stream ends: lines 192-203
Eof ==
  /\ pc = "read"
  /\ pos = Len(body)
  /\ Suspend(Final(buffer))
  /\ UNCHANGED << reqVars, body, allowed, endpoint, payload, status, pos, fault,
                  posts >>

\* a generator that leaves the rest of the buffered lines for after the next
\* read
ResumeTextThenRead ==
  /\ pc = "yield_text"
  /\ pc' = "read"
  /\ UNCHANGED << reqVars, body, allowed, endpoint, payload, status, pos, buffer,
                  pending, out, fault, posts >>

\* the consumer asks for the next fragment after a yield of line 184
ResumeText ==
  /\ pc = "yield_text"
  /\ Suspend(IterParts(pending, buffer))
  /\ UNCHANGED << reqVars, body, allowed, endpoint, payload, status, pos, fault,
                  posts >>

\* ... after a yield of line 201
ResumeFinal ==
  /\ pc = "yield_final"
  /\ Suspend(FinalParts(pending, buffer))
  /\ UNCHANGED << reqVars, body, allowed, endpoint, payload, status, pos, fault,
                  posts >>

\* ... after the yield of a status message: return (line 164)
ResumeStatus ==
  /\ pc = "yield_status"
  /\ pc' = "done"
  /\ UNCHANGED << reqVars, body, allowed, endpoint, payload, status, pos, buffer,
                  pending, out, fault, posts >>

\* a generator that sends the request again after a failure
ResumeFaultRetry ==
  /\ pc = "yield_fault"
  /\ posts' = posts + 1
  /\ pc' = "post"
  /\ UNCHANGED << reqVars, body, allowed, endpoint, payload, status, pos, buffer,
                  pending, out, fault >>

\* ... after the yield of an except clause (lines 205-213): the generator ends
ResumeFault ==
  /\ pc = "yield_fault"
  /\ pc' = "done"
  /\ UNCHANGED << reqVars, body, allowed, endpoint, payload, status, pos, buffer,
                  pending, out, fault, posts >>

\* the frame of the running call: its arguments, its locals and its connection
\* (the ClientSession of line 144 and its response belong to the call)
Frame ==
  [message |-> message, model_config |-> model_config, history |-> history,
   image |-> image, system_prompt |-> system_prompt, body |-> body,
   allowed |-> allowed, pc |-> pc, endpoint |-> endpoint, payload |-> payload,
   status |-> status, pos |-> pos, buffer |-> buffer, pending |-> pending,
   out |-> out, fault |-> fault, posts |-> posts]

\* the frame f is resumed
Resume(f) ==
  /\ message' = f.message /\ model_config' = f.model_config
  /\ history' = f.history /\ image' = f.image
  /\ system_prompt' = f.system_prompt
  /\ body' = f.body /\ allowed' = f.allowed
  /\ pc' = f.pc /\ endpoint' = f.endpoint /\ payload' = f.payload
  /\ status' = f.status /\ pos' = f.pos
  /\ pending' = f.pending /\ out' = f.out /\ fault' = f.fault
  /\ posts' = f.posts

\* a task switch with the line buffer kept in one place for both calls
SwitchSharedBuffer ==
  /\ other' = Frame
  /\ Resume(other)
  /\ buffer' = buffer
  /\ UNCHANGED self

\* the event loop suspends the running call at its await or yield and resumes
\* the other call: each generator finds its own locals as it left them; self
\* is the one adapter both calls run on
Switch ==
  /\ other' = Frame
  /\ Resume(other)
  /\ buffer' = other.buffer
  /\ UNCHANGED self
\* =========================================================== specifications

\* the lines a response body is made of, as bytes (without the newline)
Lines ==
  { <<"O", "a", "C">>,
    <<"O", "a", "c3", "a9", "C">>,
    <<"E">>,
    <<"O", "a">>,
    <<"SP">>,
    << >>,
    <<"O", "a", "x", "a", "C">>,
    <<"O", "n", "s", "a", "C">> }

RECURSIVE Join(_)
\* the lines of a body, each followed by a newline
Join(ls) == IF ls = << >> THEN << >> ELSE Head(ls) \o <<"LF">> \o Join(Tail(ls))

\* response bodies: up to MaxLines lines, the last one with or without its newline
Bodies ==
  UNION { { Join(ls) : ls \in [1..k -> Lines] } \cup
          { SubSeq(Join(ls), 1, Len(Join(ls)) - 1) : ls \in [1..k -> Lines] }
          : k \in 1..MaxLines } \cup { << >> }

\* the bodies of the termination check: lines with one fragment, with two, and
\* a malformed one
LiveLines == { <<"O", "a", "C">>, <<"O", "a", "c3", "a9", "C">>, <<"O", "a">> }
LiveBodies ==
  UNION { { Join(ls) : ls \in [1..k -> LiveLines] } \cup
          { SubSeq(Join(ls), 1, Len(Join(ls)) - 1) : ls \in [1..k -> LiveLines] }
          : k \in 1..MaxLines } \cup { << >> }

Statuses == {200, 400, 403, 429, 500}
TransportFaults == {"aiohttp.ClientError", "asyncio.TimeoutError", "RuntimeError"}

\* the model entries passed as model_config
ModelNames ==
  { <<"google", "/", "gemini", "-", "2.5", "-", "pro", "-", "preview">>,
    <<"google", "/", "Gemini", "-", "1.5", "-", "flash">>,
    <<"google", "/", "gemini">>,
    <<"openai", "/", "gpt", "-", "4o">> }
ModelConfigs ==
  [name : ModelNames] \cup [name : ModelNames, vision : BOOLEAN] \cup
  { [vision |-> TRUE], [name |-> <<"google", "/", "gemini", "-", "2.5">>,
                        vision |-> TRUE, max_output_tokens |-> 4096] }

\* the entries of a caller's history
Contents ==
  { [str |-> << >>], [str |-> <<" ">>], [str |-> <<"hi">>],
    [str |-> <<"You", " ", "are", " ", "x">>], [list |-> << >>] }
Roles == {"user", "assistant", "system", "tool"}
Messages ==
  [role : Roles, content : Contents] \cup
  { [role |-> "user"], [content |-> [str |-> <<"hi">>]], NotADict }
Histories == UNION { [1..k -> Messages] : k \in 0..MaxHistory }

SystemPrompts == { << >>, <<"You", " ", "are", " ", "a", " ", "bot">>,
                   <<"Be", " ", "brief">> }

InitRegistry ==
  /\ PROVIDER_MODELS \in ModelTables
  /\ provider_instances = << >>
  /\ heap = << >>
  /\ call = [op |-> None, name |-> None, config |-> None, raised |-> None,
            ret |-> 0]
  /\ lastReturned = [n \in ProviderNames |-> 0]
  /\ returnedBefore = {}

\* the frame of a call that has not been started
NewFrame(message_, model_config_, history_, system_prompt_, body_, allowed_) ==
  [message |-> message_, model_config |-> model_config_, history |-> history_,
   image |-> "None", system_prompt |-> system_prompt_, body |-> body_,
   allowed |-> allowed_, pc |-> "init", endpoint |-> << >>,
   payload |-> NoPayload, status |-> 0, pos |-> 0, buffer |-> << >>,
   pending |-> << >>, out |-> << >>, fault |-> NoFault, posts |-> 0]

\* no second call
NoOther ==
  other = NewFrame(<< >>, << >>, << >>, << >>, << >>,
                   [statuses |-> {}, faults |-> {}])

\* a generator that has not been started
InitGenerator ==
  /\ pc = "init"
  /\ endpoint = << >>
  /\ payload = NoPayload
  /\ status = 0
  /\ pos = 0
  /\ buffer = << >>
  /\ pending = << >>
  /\ out = << >>
  /\ fault = NoFault
  /\ posts = 0

\* one plain request
PlainRequest ==
  /\ self = NewGeminiProvider("gemA")
  /\ message = <<"hi">>
  /\ model_config = [name |-> <<"google", "/", "gemini", "-", "2.5", "-", "pro", "-", "preview">>]
  /\ history = << >>
  /\ image = "None"
  /\ system_prompt = << >>

\* one plain response
PlainTransport ==
  /\ body \in { <<"O", "a", "C", "LF">>, <<"O", "a", "C">> }
  /\ allowed = [statuses |-> {200, 429}, faults |-> {"asyncio.TimeoutError"}]

\* the registry with the gemini adapter constructed and cached
RegistryWithGemini ==
  /\ PROVIDER_MODELS = [n \in {"gemini"} |-> [name |-> <<"google", "/", "gemini", "-", "2.5", "-", "pro">>]]
  /\ provider_instances = [n \in {"gemini"} |-> 1]
  /\ heap = << [cls |-> "GeminiProvider", api_key |-> "gemA", config |-> "cfgA"] >>
  /\ call = [op |-> "get_provider", name |-> "gemini", config |-> "cfgA",
            raised |-> None, ret |-> 1]
  /\ lastReturned = [n \in ProviderNames |-> IF n = "gemini" THEN 1 ELSE 0]
  /\ returnedBefore = {}

\* no request in flight
NoRequest ==
  /\ PlainRequest
  /\ body = << >>
  /\ allowed = [statuses |-> {}, faults |-> {}]
  /\ InitGenerator
  /\ NoOther

\* every response body, every status, every transport fault; one plain request,
\* and one whose model entry has no name
InitStream ==
  /\ RegistryWithGemini
  /\ self = NewGeminiProvider("gemA")
  /\ message = <<"hi">>
  /\ model_config \in { [name |-> <<"google", "/", "gemini", "-", "2.5", "-", "pro", "-", "preview">>],
                        [vision |-> TRUE] }
  /\ history = << >>
  /\ image = "None"
  /\ system_prompt = << >>
  /\ body \in Bodies
  /\ allowed = [statuses |-> Statuses, faults |-> TransportFaults]
  /\ InitGenerator
  /\ NoOther

\* the termination check's responses; one plain request
InitStreamLive ==
  /\ RegistryWithGemini
  /\ PlainRequest
  /\ body \in LiveBodies
  /\ allowed = [statuses |-> Statuses, faults |-> TransportFaults]
  /\ InitGenerator
  /\ NoOther

\* every history and system prompt; one plain response
InitHistory ==
  /\ RegistryWithGemini
  /\ self = NewGeminiProvider("gemA")
  /\ message = <<"hi">>
  /\ model_config = [name |-> <<"google", "/", "gemini", "-", "2.5", "-", "pro", "-", "preview">>]
  /\ history \in Histories
  /\ image = "None"
  /\ system_prompt \in SystemPrompts
  /\ PlainTransport
  /\ InitGenerator
  /\ NoOther

\* every model entry, image and message; one plain response
InitVision ==
  /\ RegistryWithGemini
  /\ self = NewGeminiProvider("gemA")
  /\ message \in { << >>, <<"hi">> }
  /\ model_config \in ModelConfigs
  /\ history \in { << >>, << [role |-> "user", content |-> [str |-> <<"hi">>]] >> }
  /\ image \in Images
  /\ system_prompt \in { << >>, <<"Be", " ", "brief">> }
  /\ PlainTransport
  /\ InitGenerator
  /\ NoOther

\* two calls on the cached adapter, each with its own arguments and response
BodyA == <<"O", "a", "C", "LF", "O", "a", "C", "LF">>
BodyB == <<"O", "c3", "a9", "C", "LF", "O", "c3", "a9", "C">>
InitConcurrent ==
  /\ RegistryWithGemini
  /\ PlainRequest
  /\ body = BodyA
  /\ allowed = [statuses |-> {200, 429}, faults |-> {"asyncio.TimeoutError"}]
  /\ InitGenerator
  /\ other = NewFrame(<<"yo">>,
                      [name |-> <<"google", "/", "Gemini", "-", "1.5", "-", "flash">>],
                      << [role |-> "assistant", content |-> [str |-> <<"hi">>]] >>,
                      <<"Be", " ", "brief">>,
                      BodyB,
                      [statuses |-> {200, 500}, faults |-> {"aiohttp.ClientError"}])

GetProvider == \E provider_name \in ProviderNames, config \in Configs :
                 get_provider(provider_name, config)

NextRegistry ==
  \/ GetProvider /\ UNCHANGED streamVars
  \/ clear_provider_instances /\ UNCHANGED streamVars

NextStream ==
  \/ Start /\ UNCHANGED << regVars, other >>
  \/ (\E st \in Statuses : Response(st)) /\ UNCHANGED << regVars, other >>
  \/ ErrorBody /\ UNCHANGED << regVars, other >>
  \/ (\E exc \in TransportFaults : Fault(exc)) /\ UNCHANGED << regVars, other >>
  \/ (\E n \in 1..Len(body) : Chunk(n)) /\ UNCHANGED << regVars, other >>
  \/ Eof /\ UNCHANGED << regVars, other >>
  \/ ResumeText /\ UNCHANGED << regVars, other >>
  \/ ResumeFinal /\ UNCHANGED << regVars, other >>
  \/ ResumeStatus /\ UNCHANGED << regVars, other >>
  \/ ResumeFault /\ UNCHANGED << regVars, other >>

\* two calls in flight: either takes its next step, or the event loop switches
NextConcurrent ==
  \/ NextStream
  \/ Switch /\ UNCHANGED regVars

vars == << regVars, streamVars >>

\* the registry under every sequence of get_provider and clear calls
Init == InitRegistry /\ NoRequest
Spec == Init /\ [][NextRegistry]_vars

\* one request against every response
SpecStream == InitStream /\ [][NextStream]_vars

\* ... with the transport and the consumer taking their steps
SpecStreamLive == InitStreamLive /\ [][NextStream]_vars /\ WF_vars(NextStream)

\* one request for every history
SpecHistory == InitHistory /\ [][NextStream]_vars

\* one request for every model entry and image
SpecVision == InitVision /\ [][NextStream]_vars

\* two requests in flight on the same adapter
SpecConcurrent == InitConcurrent /\ [][NextConcurrent]_vars
\* ------------------------------------------------------- registry claims

\* the vendor family of a registered name: the first token of its vendor model id
FamilyOf(n) == PROVIDER_MODELS[n].name[1]

\* C1: two get_provider calls for a name with no clear between them return the
\* identical object; the first call for a name after a clear (or ever) returns
\* an object constructed by that call, different from every object returned
\* before the clear.
C1_SameInstanceUntilClear ==
  [][ \A n \in ProviderNames, c \in Configs :
        (call'.name = n /\ call'.raised = None /\ get_provider(n, c)) =>
          /\ lastReturned[n] # 0 => (call'.ret = lastReturned[n] /\ heap' = heap)
          /\ lastReturned[n] = 0 =>
               /\ call'.ret = Len(heap) + 1
               /\ Len(heap') = Len(heap) + 1
               /\ call'.ret \notin returnedBefore
               /\ \A m \in ProviderNames : call'.ret # lastReturned[m] ]_vars

\* C1 witness: after a clear, a call has returned an object that was never
\* returned before the clear
C1_Witness ==
  /\ call.op = "get_provider" /\ call.raised = None
  /\ returnedBefore # {}
  /\ call.ret \notin returnedBefore
  /\ lastReturned[call.name] = call.ret
  /\ provider_instances[call.name] = call.ret

\* C2: for a name absent from the model table, in every cache state,
\* get_provider raises the not-found error and the cache is exactly as before.
C2_UnknownLeavesCache ==
  [][ \A n \in ProviderNames, c \in Configs :
        (n \notin DOMAIN PROVIDER_MODELS /\ call'.name = n /\ get_provider(n, c)) =>
          /\ call'.raised = NOT_FOUND
          /\ call'.ret = 0
          /\ provider_instances' = provider_instances
          /\ heap' = heap ]_vars

\* C2 witness: the not-found error was raised while the cache held an entry
C2_Witness ==
  /\ call.op = "get_provider" /\ call.raised = NOT_FOUND
  /\ call.name \notin DOMAIN PROVIDER_MODELS
  /\ DOMAIN provider_instances # {}

\* a registered name that no routing rule matches, by name or by family
NoRuleMatches(n) ==
  /\ n \notin {"fal", "gemini", "openrouter"}
  /\ FamilyOf(n) \notin {"fal-ai", "google", "openai", "anthropic", "perplexity"}

\* C3: for a registered name whose family and name match no routing rule,
\* get_provider raises the no-implementation error and returns no adapter.
C3_NoImplementation ==
  (call.op = "get_provider" /\ call.name \in DOMAIN PROVIDER_MODELS
     /\ NoRuleMatches(call.name)) =>
    /\ call.raised = NO_IMPL
    /\ call.ret = 0
    /\ call.name \notin DOMAIN provider_instances

\* C3 witness: such a call has happened
C3_Witness ==
  /\ call.op = "get_provider" /\ call.name \in DOMAIN PROVIDER_MODELS
  /\ NoRuleMatches(call.name)
  /\ call.raised = NO_IMPL

\* the precedence table as claimed: Fal exactly for the name "fal"
ClaimedTable(n, family) ==
  IF n = "fal" THEN "FalProvider"
  ELSE IF family = "google" \/ n = "gemini" THEN "GeminiProvider"
  ELSE IF family \in {"openai", "anthropic", "perplexity"} \/ n = "openrouter"
    THEN "OpenRouterProvider"
  ELSE None

\* the precedence table as amended: Fal for the name "fal" or the family "fal-ai"
AmendedTable(n, family) ==
  IF n = "fal" \/ family = "fal-ai" THEN "FalProvider"
  ELSE ClaimedTable(n, family)

\* what the last get_provider call for a registered name gave: an adapter
\* type, or None when it raised the no-implementation error
Routed ==
  IF call.raised = None THEN heap[call.ret].cls
  ELSE IF call.raised = NO_IMPL THEN None
  ELSE "other failure"

\* C4 as claimed: the adapter type follows the table in which only the logical
\* name "fal" selects the Fal adapter.
C4_Original ==
  (call.op = "get_provider" /\ call.name \in DOMAIN PROVIDER_MODELS) =>
    Routed = ClaimedTable(call.name, FamilyOf(call.name))

\* C4 amended: the Fal adapter exactly when the logical name is "fal" or the
\* vendor family is "fal-ai"; otherwise Gemini for family "google" or name
\* "gemini"; otherwise the aggregator for family openai, anthropic, perplexity
\* or name "openrouter"; otherwise no adapter.
C4_PrecedenceTable ==
  (call.op = "get_provider" /\ call.name \in DOMAIN PROVIDER_MODELS) =>
    Routed = AmendedTable(call.name, FamilyOf(call.name))

\* C4 witness: a name other than "fal" of family "fal-ai" got the Fal adapter
C4_Witness ==
  /\ call.op = "get_provider" /\ call.raised = None
  /\ call.name = "gemini"
  /\ FamilyOf(call.name) = "fal-ai"
  /\ heap[call.ret].cls = "FalProvider"
\* --------------------------------------------------------- gemini claims

\* the failure fragments, by category of fault and by status
CategoryMessage(exc) ==
  CASE exc = "aiohttp.ClientError"  -> MSG_NETWORK
    [] exc = "asyncio.TimeoutError" -> MSG_TIMEOUT
    [] OTHER                        -> MSG_UNEXPECTED
ClaimedStatusMessage(st) ==
  CASE st = 400 -> MSG_400
    [] st = 403 -> MSG_403
    [] st = 429 -> MSG_429
    [] OTHER    -> <<"Error communicating with Gemini API (HTTP ", ToString(st), ").">>
FailureFragments ==
  {MSG_NETWORK, MSG_TIMEOUT, MSG_UNEXPECTED} \cup
  {ClaimedStatusMessage(st) : st \in Statuses \ {200}}
FailureCount == Cardinality({i \in 1..Len(out) : out[i] \in FailureFragments})

\* C5: a fault at any point (building the request, connecting, reading the
\* error body, reading a chunk, decoding a chunk) never reaches the consumer
\* as an exception: exactly one failure fragment is yielded, the one of the
\* fault's category, it is the last fragment, and the generator then ends.
C5_FaultBecomesOneFragment ==
  /\ pc # "raised"
  /\ fault.exc # None =>
       /\ pc \in {"yield_fault", "done"}
       /\ FailureCount = 1
       /\ out[Len(out)] = CategoryMessage(fault.exc)
  /\ fault.exc = None =>
       \A i \in 1..Len(out) : out[i] \notin {MSG_NETWORK, MSG_TIMEOUT, MSG_UNEXPECTED}

\* C5 witness: a timeout while reading a chunk, after text fragments were
\* delivered, ended the sequence with the timeout fragment
C5_Witness ==
  /\ pc = "done"
  /\ fault = [exc |-> "asyncio.TimeoutError", at |-> "read"]
  /\ Len(out) >= 2
  /\ out[Len(out)] = MSG_TIMEOUT

\* C6 as claimed: for every non-200 status the stream is exactly one fragment,
\* determined by the status alone.
C6_Original ==
  (status \notin {0, 200} /\ pc = "done") => out = << ClaimedStatusMessage(status) >>

\* C6 amended: for every non-200 status the stream is exactly one fragment and
\* then ends; the fragment is the status message when the error body is read
\* without a fault, and the fault's category message when reading the error
\* body raises; the body is never decoded into fragments.
C6_StatusBecomesOneFragment ==
  status \notin {0, 200} =>
    /\ pos = 0 /\ buffer = << >> /\ pending = << >>
    /\ Len(out) <= 1
    /\ pc \in {"error_body", "yield_status", "yield_fault", "done"}
    /\ pc \in {"yield_status", "yield_fault", "done"} =>
         /\ Len(out) = 1
         /\ fault.exc = None => out[1] = ClaimedStatusMessage(status)
         /\ fault.exc # None =>
              fault.at = "error_body" /\ out[1] = CategoryMessage(fault.exc)

\* C6 witness: a 429 response ended the sequence after the rate-limit fragment
C6_Witness ==
  /\ pc = "done" /\ status = 429 /\ fault.exc = None
  /\ out = << MSG_429 >>
  /\ body # << >>

RECURSIVE RunToEnd(_)
\* the fragments the generator yields from a suspension on, when the stream
\* has no more bytes
RunToEnd(r) ==
  IF r.pc = "yield_text" THEN << r.frag >> \o RunToEnd(IterParts(r.pending, r.buffer))
  ELSE IF r.pc = "yield_final"
    THEN << r.frag >> \o RunToEnd(FinalParts(r.pending, r.buffer))
  ELSE IF r.pc = "read" THEN RunToEnd(Final(r.buffer))
  ELSE << >>

\* the fragments of a body delivered as one chunk
OneChunk(b) ==
  IF b = << >> THEN RunToEnd(Final(<< >>))
  ELSE IF decode(b).err THEN << MSG_UNEXPECTED >>
  ELSE RunToEnd(DrainLines(decode(b).text))

\* C7: with a 200 response and no transport fault, however the body is cut
\* into chunks, the fragments are those of the body delivered as one chunk.
C7_ChunkingInvariant ==
  (pc = "done" /\ status = 200 /\ fault.at \notin {"post", "read"}) =>
    out = OneChunk(body)

\* entries that history normalization keeps, and what they become
Kept(e) ==
  /\ IsDict(e)
  /\ "role" \in DOMAIN e /\ "content" \in DOMAIN e
  /\ e.role \in {"user", "assistant", "system"}
  /\ IsStr(e.content)
  /\ \E i \in 1..Len(e.content.str) : e.content.str[i] \notin Whitespace
Translated(e) ==
  [role  |-> CASE e.role = "user" -> "user"
               [] e.role = "assistant" -> "model"
               [] e.role = "system" -> "user",
   parts |-> << [text |-> e.content.str] >>]
RECURSIVE KeptFrom(_, _)
KeptFrom(h, i) ==
  IF i > Len(h) THEN << >>
  ELSE IF Kept(h[i]) THEN << Translated(h[i]) >> \o KeptFrom(h, i + 1)
  ELSE KeptFrom(h, i + 1)
Normalized(h) == KeptFrom(h, 1)

\* the turns of the payload before the current one
EarlierTurns == SubSeq(payload.contents, 1, Len(payload.contents) - 1)
SystemPair ==
  << [role |-> "user",  parts |-> << [text |-> system_prompt] >>],
     [role |-> "model", parts |-> << [text |-> ACKNOWLEDGEMENT] >>] >>
Built == pc # "init" /\ fault.at # "build"

\* C8: the history turns of the payload are the kept entries of the caller's
\* history, in order, with roles user -> user, assistant -> model, system ->
\* user; a dropped entry contributes nothing. (A configured system prompt may
\* put its pair in front.)
C8_HistoryNormalization ==
  Built =>
    \/ EarlierTurns = Normalized(history)
    \/ system_prompt # << >> /\ EarlierTurns = SystemPair \o Normalized(history)

\* C8 witness: an entry without a role was dropped and a system entry became
\* a user turn
C8_Witness ==
  /\ Built
  /\ Len(history) = 2
  /\ history[1] = [content |-> [str |-> <<"hi">>]]
  /\ history[2] = [role |-> "system", content |-> [str |-> <<"hi">>]]
  /\ EarlierTurns = << [role |-> "user", parts |-> << [text |-> <<"hi">>] >>] >>

\* the request carries an image, and the model entry allows vision
CarriesImage == image \notin {"None", "b''"}
FlagAllows == "vision" \in DOMAIN model_config /\ model_config.vision = TRUE
IsVisionEndpoint ==
  /\ Len(endpoint) >= 3
  /\ SubSeq(endpoint, Len(endpoint) - 2, Len(endpoint))
       = <<"-", "vision", ":streamGenerateContent">>
CurrentTurn == payload.contents[Len(payload.contents)]
HasAttachment ==
  \E i \in 1..Len(CurrentTurn.parts) : "inline_data" \in DOMAIN CurrentTurn.parts[i]

\* C9: the vision endpoint is used, and the inline image is in the current
\* turn, exactly when the request carries an image and the model entry's
\* flag allows vision.
C9_VisionIffImageAndFlag ==
  Built =>
    /\ IsVisionEndpoint <=> (CarriesImage /\ FlagAllows)
    /\ HasAttachment <=> (CarriesImage /\ FlagAllows)

\* C9 witness: an image with a model entry whose flag disallows vision went
\* to the text endpoint without an attachment
C9_Witness ==
  /\ Built
  /\ image = "b'JPEG'"
  /\ "vision" \in DOMAIN model_config /\ model_config.vision = FALSE
  /\ ~IsVisionEndpoint
  /\ ~HasAttachment

\* C10: every started request ends: the generator finishes, after finitely
\* many fragments.
C10_Terminates == [](pc # "init" => <>(pc = "done"))

\* C10 witness: a 200 response was streamed to its end
C10_Witness ==
  /\ pc = "done" /\ status = 200 /\ fault.exc = None
  /\ pos = Len(body) /\ Len(body) > 0
  /\ Len(out) >= 2

\* ------------------------------------------------- claims on response lines

RECURSIVE LinesOf(_)
\* the lines of a response text: the text between newlines, and the text after
\* the last newline when there is some
LinesOf(t) ==
  IF \A i \in 1..Len(t) : t[i] # "LF"
  THEN IF t = << >> THEN << >> ELSE << t >>
  ELSE << split1(t, "LF")[1] >> \o LinesOf(split1(t, "LF")[2])

\* the line is valid JSON with the candidates/content/parts shape
HasShape(t) ==
  /\ json_loads(t).ok
  /\ LET data == json_loads(t).data
     IN  /\ "candidates" \in DOMAIN data /\ data.candidates # << >>
         /\ "content" \in DOMAIN data.candidates[1]
         /\ "parts" \in DOMAIN data.candidates[1].content
LineParts(t) == json_loads(t).data.candidates[1].content.parts

RECURSIVE TextsOf(_)
\* the text fragments of a sequence of parts
TextsOf(parts) ==
  IF parts = << >> THEN << >>
  ELSE IF IsDict(Head(parts)) /\ "text" \in DOMAIN Head(parts)
    THEN << Head(parts).text >> \o TextsOf(Tail(parts))
  ELSE TextsOf(Tail(parts))

\* what a line may contribute: nothing when it is malformed, its text
\* fragments when it is well-formed. A line that has the shape but holds a
\* part that is not an object can be read as either.
LineFragments(t) ==
  IF ~HasShape(t) THEN { << >> }
  ELSE IF \A i \in 1..Len(LineParts(t)) : IsDict(LineParts(t)[i])
    THEN { TextsOf(LineParts(t)) }
  ELSE { << >>, TextsOf(LineParts(t)) }

RECURSIVE AllLineFragments(_)
AllLineFragments(ls) ==
  IF ls = << >> THEN { << >> }
  ELSE { a \o b : a \in LineFragments(Head(ls)), b \in AllLineFragments(Tail(ls)) }

\* a 200 response read to its end without a fault, every line with its newline
StreamedWholeLines ==
  /\ pc = "done" /\ status = 200 /\ fault.exc = None
  /\ body # << >> /\ body[Len(body)] = "LF"

\* C11: a malformed line of a 200 response (not valid JSON, or valid JSON
\* without the candidates/content/parts shape) contributes no fragment and no
\* failure fragment and does not end the sequence; the well-formed lines
\* before and after it contribute exactly their text fragments, in order.
C11_MalformedLineSkipped ==
  StreamedWholeLines =>
    out \in AllLineFragments(LinesOf(decode(body).text))

\* the turns open with the configured prompt as a user turn
OpensWithPrompt(turns) ==
  /\ turns # << >>
  /\ turns[1] = [role |-> "user", parts |-> << [text |-> system_prompt] >>]

\* C12: with a system prompt configured, the prompt turn and the
\* acknowledgement turn are put in front of the normalized history, unless the
\* first normalized entry is already that prompt, and then nothing is put in
\* front; the outgoing contents always open with the configured prompt.
C12_SystemPromptInjected ==
  (Built /\ system_prompt # << >>) =>
    /\ EarlierTurns = IF OpensWithPrompt(Normalized(history))
                      THEN Normalized(history)
                      ELSE SystemPair \o Normalized(history)
    /\ OpensWithPrompt(payload.contents)

RECURSIVE RunToRead(_)
\* the fragments the generator yields from a suspension on, up to its next
\* read of the stream
RunToRead(r) ==
  IF r.pc = "yield_text" THEN << r.frag >> \o RunToRead(IterParts(r.pending, r.buffer))
  ELSE << >>

\* the fragments due from the bytes received so far: those of the lines that
\* are complete in them
DueFragments == RunToRead(DrainLines(decode(SubSeq(body, 1, pos)).text))

RequestState(pc_, out_) ==
  IF \E i \in 1..Len(out_) : out_[i] \in FailureFragments THEN "ERROR"
  ELSE IF pc_ = "init" THEN "INIT"
  ELSE IF pc_ = "post" THEN "SEND"
  ELSE IF pc_ = "done" THEN "DONE"
  ELSE "STREAM"
Rank(s) ==
  CASE s = "INIT" -> 0 [] s = "SEND" -> 1 [] s = "STREAM" -> 2
    [] s \in {"DONE", "ERROR"} -> 3

\* C14: a request only moves forward through INIT, SEND, STREAM and ends in
\* DONE or ERROR; after a failure fragment no fragment is emitted, no chunk is
\* read and no HTTP request is sent; at most one HTTP request is sent at all.
C14_ForwardOnly ==
  [][ /\ Rank(RequestState(pc', out')) >= Rank(RequestState(pc, out))
      /\ RequestState(pc, out) \in {"DONE", "ERROR"} =>
           RequestState(pc', out') = RequestState(pc, out)
      /\ RequestState(pc, out) = "ERROR" =>
           /\ out' = out /\ pos' = pos /\ posts' = posts
           /\ pc' = "done"
      /\ posts' <= 1 ]_vars

\* C14 witness: after a network failure in the middle of the body, the
\* generator has ended with the body not read to its end and one request sent
C14_Witness ==
  /\ pc = "done"
  /\ RequestState(pc, out) = "ERROR"
  /\ fault = [exc |-> "aiohttp.ClientError", at |-> "read"]
  /\ 0 < pos /\ pos < Len(body)
  /\ posts = 1

\* ------------------------------------------------ claims on the cache

\* C15: when an instance for a name is cached, get_provider with any config,
\* also one different from the config the instance was constructed with,
\* returns that instance; no object is constructed, the cache is unchanged and
\* the instance keeps the credential of the config that constructed it.
C15_CachedIgnoresConfig ==
  [][ \A n \in ProviderNames, c \in Configs :
        (n \in DOMAIN provider_instances /\ call'.name = n /\ get_provider(n, c)) =>
          /\ call'.raised = None
          /\ call'.ret = provider_instances[n]
          /\ heap' = heap
          /\ provider_instances' = provider_instances
          /\ heap'[call'.ret].api_key = heap[provider_instances[n]].api_key
          /\ heap'[call'.ret].config = heap[provider_instances[n]].config ]_vars

\* C15 witness: a call with config B returned the gemini instance that was
\* constructed with config A and holds config A's key
C15_Witness ==
  /\ call.op = "get_provider" /\ call.raised = None
  /\ call.config = "cfgB"
  /\ call.name = "gemini"
  /\ heap[call.ret] = [cls |-> "GeminiProvider", api_key |-> "gemA", config |-> "cfgA"]
  /\ provider_instances["gemini"] = call.ret

\* C16: however the get_provider and clear calls of concurrent tasks are
\* ordered, an adapter is constructed only for a name that has no cached
\* instance and for which none was returned since the last clear, the
\* constructed object is the one stored and returned, a cached entry is never
\* overwritten by a get_provider call, and every call returns the cached
\* instance of its name.
C16_OneInstancePerName ==
  [][ \A n \in ProviderNames, c \in Configs :
        (call'.op = "get_provider" /\ call'.name = n /\ get_provider(n, c)) =>
          /\ Len(heap') > Len(heap) =>
               /\ n \notin DOMAIN provider_instances
               /\ lastReturned[n] = 0
               /\ Len(heap') = Len(heap) + 1
               /\ provider_instances'[n] = Len(heap')
          /\ \A m \in DOMAIN provider_instances :
               /\ m \in DOMAIN provider_instances'
               /\ provider_instances'[m] = provider_instances[m]
          /\ call'.raised = None =>
               /\ call'.ret = provider_instances'[n]
               /\ lastReturned[n] # 0 => call'.ret = lastReturned[n] ]_vars

\* C16 witness: two calls for the same name, the second with another config,
\* were served by the one object constructed since the last clear
C16_Witness ==
  /\ call.op = "get_provider" /\ call.raised = None
  /\ call.config # heap[call.ret].config
  /\ returnedBefore # {}
  /\ call.ret = Len(heap)
  /\ call.ret \notin returnedBefore

\* get_provider in the specified order: the model table is resolved first,
\* then the cache is consulted
SpecifiedOrder(provider_name, config) ==
  IF provider_name \notin DOMAIN PROVIDER_MODELS THEN
    Raise(provider_name, config, NOT_FOUND)
  ELSE IF provider_name \in DOMAIN provider_instances THEN
    CacheHit(provider_name, config)
  ELSE
    LET provider == SelectProvider(provider_name,
                                   ProviderType(PROVIDER_MODELS[provider_name]),
                                   config)
    IN  IF provider = NoProvider THEN Raise(provider_name, config, NO_IMPL)
        ELSE /\ Len(heap) < MaxInstances
             /\ heap' = Append(heap, provider)
             /\ provider_instances' =
                  [n \in DOMAIN provider_instances \cup {provider_name} |->
                     IF n = provider_name THEN Len(heap) + 1
                     ELSE provider_instances[n]]
             /\ Return(provider_name, config, Len(heap) + 1)

\* every key of the cache is a registered name and its value an adapter of the
\* type the routing rules give for the name
CacheWellFormed ==
  \A n \in DOMAIN provider_instances :
    /\ n \in DOMAIN PROVIDER_MODELS
    /\ provider_instances[n] \in 1..Len(heap)
    /\ heap[provider_instances[n]].cls = AmendedTable(n, FamilyOf(n))

\* C20: after any sequence of get_provider and clear calls the cache is
\* well-formed; a get_provider call that fails leaves the cache unchanged; and
\* every call gives what the specified order (model table first, then cache)
\* gives.
C20_CacheInvariant ==
  /\ []CacheWellFormed
  /\ [][ \A n \in ProviderNames, c \in Configs :
           (call'.op = "get_provider" /\ call'.name = n /\ get_provider(n, c)) =>
             /\ call'.raised # None =>
                  provider_instances' = provider_instances /\ heap' = heap
             /\ SpecifiedOrder(n, c) ]_vars

\* C20 witness: after a clear, a call failed for want of an implementation
\* while the cache held an instance for another name
C20_Witness ==
  /\ call.op = "get_provider" /\ call.raised = NO_IMPL
  /\ returnedBefore # {}
  /\ DOMAIN provider_instances # {}
  /\ CacheWellFormed

\* C18: chat_completion_stream leaves the caller's history list, the model
\* entry, the config and the adapter's fields (base URL, default model paths,
\* credential) as they were, at every step of the call, on success and on
\* every failure path.
C18_CallerStateUnchanged ==
  [][ /\ history' = history
      /\ model_config' = model_config
      /\ self' = self
      /\ heap' = heap
      /\ provider_instances' = provider_instances ]_vars

\* C18 witness: a request whose history had two entries was sent with the
\* system-prompt pair in front and the version token in its endpoint, and the
\* history still has its two entries
C18_Witness ==
  /\ pc = "done"
  /\ Len(history) = 2
  /\ Len(payload.contents) = 5
  /\ OpensWithPrompt(payload.contents)
  /\ \E i \in 1..Len(endpoint) : endpoint[i] = "2.5"
  /\ self = NewGeminiProvider("gemA")

\* ------------------------------------------- claims on concurrent requests

\* the fragments due from the first k bytes of a body
DueFrom(b, k) == RunToRead(DrainLines(decode(SubSeq(b, 1, k)).text))

\* the fragment sequences a finished call produces when it runs alone with the
\* same arguments, the same response and the same fault of its connection
AloneOuts(f) ==
  IF f.fault.at \in {"build", "post", "error_body"}
    THEN { << CategoryMessage(f.fault.exc) >> }
  ELSE IF f.status # 200 THEN { << ClaimedStatusMessage(f.status) >> }
  ELSE IF f.fault.at = "read"
    THEN { DueFrom(f.body, f.pos) \o << CategoryMessage(f.fault.exc) >> }
  ELSE IF f.fault.at = "decode"
    THEN { DueFrom(f.body, k) \o << MSG_UNEXPECTED >> :
             k \in { j \in 0..(f.pos - 1) :
                       /\ ~decode(SubSeq(f.body, 1, j)).err
                       /\ decode(SubSeq(f.body, j + 1, f.pos)).err } }
  ELSE { OneChunk(f.body) }

\* the endpoint and payload of a call are those built from its own arguments,
\* and a finished call has produced what it produces alone
OwnResult(f) ==
  /\ (f.pc # "init" /\ f.fault.at # "build") =>
       LET r == BuildRequest(self, f.message, f.model_config, f.history,
                             f.image, f.system_prompt)
       IN  f.endpoint = r.endpoint /\ f.payload = r.payload
  /\ f.pc = "done" => f.out \in AloneOuts(f)

\* C17: with two requests in flight on one adapter, under every interleaving
\* of their suspension points, each consumer receives the fragments its
\* request produces alone, and each request's endpoint and payload are built
\* from its own arguments; no step of one request changes the buffer,
\* endpoint, payload or fragments of the other, or the adapter.
C17_RequestsIsolated ==
  /\ [](OwnResult(Frame) /\ OwnResult(other))
  /\ [][ /\ self' = self
         /\ other' # other => (other' = Frame /\ Frame' = other) ]_vars

\* C17 witness: both requests are in the middle of their bodies, each with
\* fragments delivered and a partial line in its own buffer
C17_Witness ==
  /\ pc = "read" /\ other.pc = "read"
  /\ body = BodyA /\ other.body = BodyB
  /\ 0 < pos /\ pos < Len(body)
  /\ 0 < other.pos /\ other.pos < Len(other.body)
  /\ out = << <<"a">> >> /\ other.out = << <<"e_acute">> >>
  /\ buffer # << >> /\ other.buffer # << >> /\ buffer # other.buffer

\* ------------------------------------------------ claims on the last line

\* the position of the last newline of a text, 0 when it has none
LastNewline(t) ==
  IF \E i \in 1..Len(t) : t[i] = "LF"
  THEN CHOOSE i \in 1..Len(t) : t[i] = "LF" /\ \A j \in (i + 1)..Len(t) : t[j] # "LF"
  ELSE 0
\* the text after the last newline
LastLine(t) == SubSeq(t, LastNewline(t) + 1, Len(t))

\* a 200 response read to its end without a fault, with text that is not
\* whitespace after its last newline
EndedWithLastLine ==
  /\ pc = "done" /\ status = 200 /\ fault.exc = None
  /\ strip(LastLine(decode(body).text)) # << >>

\* C19: the text left in the buffer when the stream ends gets one parse
\* attempt: when it is a well-formed object its text fragments follow all
\* earlier fragments, and when it is malformed the sequence ends with no
\* fragment for it and no failure fragment.
C19_FinalBufferParsed ==
  EndedWithLastLine =>
    \E last \in LineFragments(LastLine(decode(body).text)) :
      out = DueFrom(body, LastNewline(body)) \o last
====
